---------------------------- MODULE Spec2Model ----------------------------
(***************************************************************************)
(* State-machine model of the request-time compilation core of the dev     *)
(* server: the on-demand transform pipeline (transformRequest, doTransform,*)
(* loadAndTransform), the dependency scanner (scanImports, scanFile,      *)
(* createScanResolver), the transform middleware (viteTransformMiddleware) *)
(* and the eager-prefetch warmer (eagerTransformPlugin).                   *)
(*                                                                         *)
(* Every `await` of the source is an interleaving point: an async function *)
(* is a record with a program counter that names the await it is suspended *)
(* at, and one action runs the code from that await to the next one.       *)
(***************************************************************************)
EXTENDS Integers, Sequences, FiniteSets, TLC

(***************************************************************************)
(* Bounds of the model.                                                    *)
(***************************************************************************)
\* Calls of transformRequest issued from outside (middleware, prefetch).
MaxCalls == 2
\* Largest value Date.now() takes.
MaxTime == 2

VARIABLES
  now,              \* Date.now(): the millisecond clock
  modules,          \* server.moduleGraph: de-timestamped url -> Module
  pendingRequests,  \* server._pendingRequests: cache key -> pending computation
  comps,            \* every doTransform computation started, in start order
  calls             \* every top-level call of transformRequest, in call order

pipeVars == <<now, modules, pendingRequests, comps, calls>>

VARIABLES
  scanPhase,     \* where scanImports is: "idle", "creating", "waiting", "returned"
  layout,        \* the project on disk the scan runs on
  scanContext,   \* the { cancelled } object passed to scanImports
  imports,       \* config.imports: file path -> its import list
  depImports,    \* the caller's optimizable-deps record: specifier -> path
  missing,       \* the caller's missing record: specifier -> importer
  seen,          \* the resolver's memo: key -> resolved id
  tasks,         \* the tasks array of scanImports
  tasksLength,   \* the length captured before the pending Promise.all
  reads,         \* history: file path -> number of fs.readFile calls
  depWrites,     \* history: specifier -> number of writes of depImports
  firstOpt,      \* history: specifier -> first optimizable path the hook gave
  firstImporter  \* history: specifier -> first file found importing it

VARIABLES
  rescans        \* history: the invocations of scanImports after the first

scanVars ==
  <<scanPhase, layout, scanContext, imports, depImports, missing, seen,
    tasks, tasksLength, reads, depWrites, firstOpt, firstImporter, rescans>>

VARIABLES
  reqs,          \* every request handed to viteTransformMiddleware, in order
  fileVersion    \* url -> the version of the file's content now on disk

mwVars == <<reqs, fileVersion>>

VARIABLES
  fileImportsMetadata,  \* config.fileImportsMetadata: file id -> import ids
  scans,                \* history: file id -> the number of lists recorded
                        \* for it, and whether it changed since the last
  loads                 \* history: file id -> the load events of the file

warmVars == <<fileImportsMetadata, scans, loads>>

\* What the pipeline, and what one run of the scanner, leaves alone.
nonPipeVars == <<scanVars, mwVars, warmVars>>
nonScanVars == <<pipeVars, mwVars, warmVars, rescans>>

(***************************************************************************)
(* Values.                                                                 *)
(***************************************************************************)
\* Request urls: a module url and the same url with a cache-busting
\* timestamp query; a second module; a file of the public directory; a
\* file outside the project root; a module no file stands for.
Urls ==
  {"/a.js", "/a.js?t=1", "/b.js", "/pub.js", "/@fs/lib/c.js", "virtual:x"}

\* Mode prefixes of the cache key: normal, server-side, markup fallback.
Modes == {"", "ssr:", "html:"}

ERR_LOAD_URL == "ERR_LOAD_URL"
ERR_LOAD_PUBLIC_URL == "ERR_LOAD_PUBLIC_URL"

\* removeTimestampQuery: drops the ?t= query; other urls are unchanged.
removeTimestampQuery(url) == IF url = "/a.js?t=1" THEN "/a.js" ELSE url

ModUrls == {removeTimestampQuery(u) : u \in Urls}

\* checkPublicFile(url, config): whether the url names a file of /public.
checkPublicFile(url) == url = "/pub.js"

\* const cacheKey = (options.ssr ? 'ssr:' : options.html ? 'html:' : '') + url
cacheKey(url, mode) == <<mode, url>>

Keys == {cacheKey(u, m) : u \in Urls, m \in Modes}

\* The requests the callers issue: the module in the normal mode, without
\* and with the timestamp query a hot update appends, and in the
\* server-side mode.
Requests ==
  {<<"/a.js", "">>, <<"/a.js?t=1", "">>, <<"/a.js", "ssr:">>}

\* options.ssr of a mode
IsSsr(mode) == mode = "ssr:"
\* options.html of a mode
IsHtml(mode) == mode = "html:"

\* What pluginContainer.load and the filesystem fallback can come to: a
\* plugin supplies code; no plugin does and the file is read from disk; no
\* plugin does and the file is not found (or not servable).
LoadOutcomes == {"plugin", "fs", "enoent"}

NoRes == [kind |-> "none", by |-> 0, code |-> ""]
\* A TransformResult object, identified by the computation that built it.
OkRes(c) == [kind |-> "ok", by |-> c, code |-> ""]
\* loadAndTransform's `return null` of the markup-fallback mode.
NullRes == [kind |-> "null", by |-> 0, code |-> ""]
\* An error object thrown by computation c.
ErrRes(c, code) == [kind |-> "err", by |-> c, code |-> code]

\* A Module as created by ensureEntryFromUrl. A cache slot holds the
\* computation that built the result stored in it, 0 when it is empty.
NewModule ==
  [exists |-> TRUE, lastInvalidationTimestamp |-> 0,
   transformResult |-> 0, ssrTransformResult |-> 0]

\* The url has no Module yet.
NoModule ==
  [exists |-> FALSE, lastInvalidationTimestamp |-> 0,
   transformResult |-> 0, ssrTransformResult |-> 0]

\* moduleGraph.getModuleByUrl(url, ssr)
getModuleByUrl(mods, url) == mods[removeTimestampQuery(url)]

\* ssr ? module.ssrTransformResult : module.transformResult
Slot(m, mode) == IF IsSsr(mode) THEN m.ssrTransformResult ELSE m.transformResult

(***************************************************************************)
(* transformRequest                                                        *)
(***************************************************************************)
\* The reuse test with >= for >.
ReusePendingWeak(pendingTs, m) ==
  ~m.exists \/ pendingTs >= m.lastInvalidationTimestamp

\* The reuse test inverted.
ReusePendingInverted(pendingTs, m) ==
  m.exists /\ pendingTs <= m.lastInvalidationTimestamp

\* if (!module || pending.timestamp > module.lastInvalidationTimestamp)
\* (line 68): whether the pending request is reused.
ReusePending(pendingTs, m) ==
  ~m.exists \/ pendingTs > m.lastInvalidationTimestamp

\* clearCache of computation c without its `cleared` flag.
clearCacheUnguarded(reg, cs, c) ==
  [reg |-> [reg EXCEPT ![cs[c].key] = 0],
   comps |-> [cs EXCEPT ![c].cleared = TRUE, ![c].removals = @ + 1]]

\* clearCache of computation c (lines 85-90): deletes the registry entry of
\* c's cache key unless c's closure has done so before.
clearCache(reg, cs, c) ==
  IF ~cs[c].cleared
    THEN [reg |-> [reg EXCEPT ![cs[c].key] = 0],
          comps |-> [cs EXCEPT ![c].cleared = TRUE, ![c].removals = @ + 1]]
    ELSE [reg |-> reg, comps |-> cs]

\* The computation doTransform(url, server, options, timestamp) as started
\* at line 81: it runs to its first await (getModuleByUrl). content is the
\* version of the file's content that the load step obtained. History:
\* removals counts the deletions of its registry entry; fresh tells that
\* its Module, if any, was last invalidated before the millisecond it
\* started in; inv tells that its Module was invalidated after it started;
\* abortedFirst tells that an abort removed its entry before it settled;
\* prevSlot, finInv and wrote are what its cache-write step found in the
\* slot, the invalidation timestamp it compared with, and whether the slot
\* held its result afterwards.
doTransform(url, mode, ts, mods) ==
  [key |-> cacheKey(url, mode), url |-> removeTimestampQuery(url),
   mode |-> mode, ts |-> ts, pc |-> "lookup", cleared |-> FALSE,
   res |-> NoRes, content |-> 0,
   removals |-> 0,
   fresh |-> (~getModuleByUrl(mods, url).exists
                \/ ts > getModuleByUrl(mods, url).lastInvalidationTimestamp),
   inv |-> FALSE, abortedFirst |-> FALSE,
   prevSlot |-> 0, finInv |-> 0, wrote |-> FALSE]

\* The synchronous part of transformRequest(url, server, options), lines
\* 52-102, on registry reg and computations cs: either the call finds a
\* pending request and suspends on getModuleByUrl (st "check"), or it
\* starts doTransform, registers it and returns its future (st "wait").
transformRequest(reg, cs, url, mode, mods, timestamp) ==
  LET key == cacheKey(url, mode)
      pending == reg[key]
      n == Len(cs) + 1
  IN IF pending # 0
       THEN [reg |-> reg, comps |-> cs, st |-> "check", pend |-> pending,
             src |-> 0]
       ELSE [reg |-> [reg EXCEPT ![key] = n],
             comps |-> Append(cs, doTransform(url, mode, timestamp, mods)),
             st |-> "wait", pend |-> 0, src |-> n]

\* A top-level call of transformRequest: st "check" while it is suspended
\* on getModuleByUrl with the pending request it found, st "wait" once it
\* has returned the future of computation src, whose outcome its caller
\* receives when that future settles. History: created is the computation
\* the call started when it was issued and found the pending request it
\* found instead (0 if none); stale tells that the Module had been
\* invalidated after the pending request found had started; nAtIssue is the
\* number of computations started before the call; abortedFound tells that
\* the call has invoked the abort of the pending request it found.
NewCall(url, mode, r, cs) ==
  [url |-> url, mode |-> mode, st |-> r.st, pend |-> r.pend, src |-> r.src,
   created |-> r.src, found |-> r.pend,
   stale |-> (r.pend # 0 /\ cs[r.pend].inv),
   nAtIssue |-> Len(cs),
   abortedFound |-> FALSE]

(***************************************************************************)
(* The environment: the clock and the file watcher.                        *)
(***************************************************************************)
\* A millisecond passes. The clock is read only when a request starts and
\* when a Module is invalidated, and only compared: milliseconds in which
\* neither happens are left out.
Tick ==
  /\ now < MaxTime
  /\ \/ \E c \in 1..Len(comps) : comps[c].ts = now
     \/ \E u \in ModUrls : modules[u].lastInvalidationTimestamp = now
  /\ now' = now + 1
  /\ UNCHANGED <<modules, pendingRequests, comps, calls>>
  /\ UNCHANGED nonPipeVars

\* moduleGraph.invalidateModule(mod) on a file change: the Module's cached
\* results are dropped and its last-invalidation timestamp is set to the
\* current time.
Invalidate(u) ==
  /\ modules[u].exists
  /\ modules' = [modules EXCEPT
                   ![u].lastInvalidationTimestamp = now,
                   ![u].transformResult = 0,
                   ![u].ssrTransformResult = 0]
  /\ comps' = [c \in 1..Len(comps) |->
                IF comps[c].url = u THEN [comps[c] EXCEPT !.inv = TRUE]
                                    ELSE comps[c]]
  /\ UNCHANGED <<now, pendingRequests, calls>>
  /\ UNCHANGED nonPipeVars

(***************************************************************************)
(* Actions of transformRequest.                                            *)
(***************************************************************************)
\* A caller invokes transformRequest(url, server, options).
Request(url, mode) ==
  /\ Len(calls) < MaxCalls
  /\ LET r == transformRequest(pendingRequests, comps, url, mode, modules,
                               now)
     IN /\ pendingRequests' = r.reg
        /\ comps' = r.comps
        /\ calls' = Append(calls, NewCall(url, mode, r, comps))
  /\ UNCHANGED <<now, modules>>
  /\ UNCHANGED nonPipeVars

\* The callback of getModuleByUrl(...).then (lines 65-77) of call i, which
\* found `pending` when it was issued: reuse the pending future, or abort
\* it and call transformRequest again.
PendingCheck(i) ==
  /\ calls[i].st = "check"
  /\ LET c == calls[i]
         p == c.pend
         m == getModuleByUrl(modules, c.url)
     IN IF ReusePending(comps[p].ts, m)
          THEN /\ calls' = [calls EXCEPT ![i].st = "wait", ![i].src = p]
               /\ UNCHANGED <<pendingRequests, comps>>
          ELSE LET a == clearCache(pendingRequests, comps, p)
                   r == transformRequest(a.reg, a.comps, c.url, c.mode,
                                         modules, now)
               IN /\ pendingRequests' = r.reg
                  /\ comps' = [r.comps EXCEPT
                                 ![p].abortedFirst = (@ \/ ~comps[p].cleared)]
                  /\ calls' = [calls EXCEPT
                                 ![i].st = r.st, ![i].pend = r.pend,
                                 ![i].src = r.src,
                                 ![i].abortedFound = (@ \/ p = c.found)]
  /\ UNCHANGED <<now, modules>>
  /\ UNCHANGED nonPipeVars

(***************************************************************************)
(* doTransform and loadAndTransform, one action per await.                 *)
(***************************************************************************)
\* Settlement without the reaction of line 99.
SettleKeepsEntry(reg, cs, c, res) ==
  [reg |-> reg, comps |-> [cs EXCEPT ![c].pc = "settled", ![c].res = res]]

\* Settlement of computation c's future with outcome res: the reaction
\* registered first, request.then(clearCache, clearCache) of line 99, runs
\* before any caller's continuation.
Settle(reg, cs, c, res) ==
  LET a == clearCache(reg, cs, c)
  IN [reg |-> a.reg,
      comps |-> [a.comps EXCEPT ![c].pc = "settled", ![c].res = res]]

\* doTransform after `await getModuleByUrl` with the cached result ignored.
LookupNoCache(c) ==
  /\ comps[c].pc = "lookup"
  /\ comps' = [comps EXCEPT ![c].pc = "load"]
  /\ UNCHANGED <<now, modules, calls, pendingRequests>>
  /\ UNCHANGED nonPipeVars

\* doTransform after `await getModuleByUrl` (lines 121-138): a cached
\* result of the mode is returned at once; otherwise the resolve hook chain
\* is invoked and then, by loadAndTransform, the load hook chain (line 165).
\* The await of the resolve hook is not a step of its own: between it and
\* the await of the load hook the computation neither reads nor writes the
\* module graph or the registry.
Lookup(c) ==
  /\ comps[c].pc = "lookup"
  /\ LET m == modules[comps[c].url]
         cached == IF m.exists THEN Slot(m, comps[c].mode) ELSE 0
     IN IF cached # 0
          THEN LET s == Settle(pendingRequests, comps, c, OkRes(cached))
               IN pendingRequests' = s.reg /\ comps' = s.comps
          ELSE /\ comps' = [comps EXCEPT ![c].pc = "load"]
               /\ UNCHANGED pendingRequests
  /\ UNCHANGED <<now, modules, calls>>
  /\ UNCHANGED nonPipeVars

\* The load error with the public-asset case left out.
LoadErrorCodeGeneric(url) == ERR_LOAD_URL

\* err.code = isPublicFile ? ERR_LOAD_PUBLIC_URL : ERR_LOAD_URL (line 232)
LoadErrorCode(url) ==
  IF checkPublicFile(url) THEN ERR_LOAD_PUBLIC_URL ELSE ERR_LOAD_URL

\* loadAndTransform after the load hook chain and the filesystem fallback
\* (lines 166-236): with code it goes on to ensureEntryFromUrl; without,
\* the markup-fallback mode returns null and the other modes throw the load
\* error.
Loaded(c, out) ==
  /\ comps[c].pc = "load"
  /\ LET html == IsHtml(comps[c].mode)
         hasCode == out = "plugin" \/ (out = "fs" /\ ~html)
         res == IF html THEN NullRes
                ELSE ErrRes(c, LoadErrorCode(comps[c].url))
     IN IF hasCode
          THEN /\ comps' = [comps EXCEPT
                              ![c].pc = "ensure",
                              ![c].content = fileVersion[comps[c].url]]
               /\ UNCHANGED pendingRequests
          ELSE LET s == Settle(pendingRequests, comps, c, res)
               IN pendingRequests' = s.reg /\ comps' = s.comps
  /\ UNCHANGED <<now, modules, calls>>
  /\ UNCHANGED nonPipeVars

\* moduleGraph.ensureEntryFromUrl has returned the Module, created if it
\* was missing (line 236); the transform hook chain is invoked (line 243).
Ensured(c) ==
  /\ comps[c].pc = "ensure"
  /\ modules' = [modules EXCEPT ![comps[c].url] =
                   IF @.exists THEN @ ELSE NewModule]
  /\ comps' = [comps EXCEPT ![c].pc = "transform"]
  /\ UNCHANGED <<now, pendingRequests, calls>>
  /\ UNCHANGED nonPipeVars

\* The cache-write guard with the comparison weakened.
CacheWriteGuardWeak(timestamp, mod) ==
  timestamp >= mod.lastInvalidationTimestamp

\* if (timestamp > mod.lastInvalidationTimestamp) (line 321)
CacheWriteGuard(timestamp, mod) ==
  timestamp > mod.lastInvalidationTimestamp

\* The final step without its guard.
CacheWriteUnguarded(mod, c, mode, timestamp) ==
  IF IsSsr(mode)
    THEN [mod EXCEPT !.ssrTransformResult = c]
    ELSE [mod EXCEPT !.transformResult = c]

\* The Module after the final step of loadAndTransform (lines 321-324).
CacheWrite(mod, c, mode, timestamp) ==
  IF CacheWriteGuard(timestamp, mod)
    THEN IF IsSsr(mode)
           THEN [mod EXCEPT !.ssrTransformResult = c]
           ELSE [mod EXCEPT !.transformResult = c]
    ELSE mod

\* loadAndTransform after the transform hook chain (lines 247-326): the
\* result is built, stored on the Module if the guard allows, and returned.
Transformed(c) ==
  /\ comps[c].pc = "transform"
  /\ LET u == comps[c].url
         mod == modules[u]
         after == CacheWrite(mod, c, comps[c].mode, comps[c].ts)
         s == Settle(pendingRequests, comps, c, OkRes(c))
     IN /\ modules' = [modules EXCEPT ![u] = after]
        /\ pendingRequests' = s.reg
        /\ comps' = [s.comps EXCEPT
                       ![c].prevSlot = Slot(mod, comps[c].mode),
                       ![c].finInv = mod.lastInvalidationTimestamp,
                       ![c].wrote = (Slot(after, comps[c].mode) = c)]
  /\ UNCHANGED <<now, calls>>
  /\ UNCHANGED nonPipeVars

(***************************************************************************)
(* The transform pipeline as a state machine.                              *)
(***************************************************************************)
\* Callers that ask for one module in one mode.
MaxCallers == 3

\* transformRequest('/a.js', server) is called by one more of the callers
\* of that module (lines 46-102).
Caller ==
  /\ Len(calls) < MaxCallers
  /\ LET r == transformRequest(pendingRequests, comps, "/a.js", "", modules,
                               now)
     IN /\ pendingRequests' = r.reg
        /\ comps' = r.comps
        /\ calls' = Append(calls, NewCall("/a.js", "", r, comps))
  /\ UNCHANGED <<now, modules>>
  /\ UNCHANGED nonPipeVars

InitPipe ==
  /\ now = 1
  /\ modules = [u \in ModUrls |-> NoModule]
  /\ pendingRequests = [k \in Keys |-> 0]
  /\ comps = <<>>
  /\ calls = <<>>

NextPipe ==
  \/ Tick
  \/ \E u \in ModUrls : Invalidate(u)
  \/ \E r \in Requests : Request(r[1], r[2])
  \/ \E i \in 1..Len(calls) : PendingCheck(i)
  \/ \E c \in 1..Len(comps) : Lookup(c)
  \/ \E c \in 1..Len(comps), out \in LoadOutcomes : Loaded(c, out)
  \/ \E c \in 1..Len(comps) : Ensured(c)
  \/ \E c \in 1..Len(comps) : Transformed(c)

(***************************************************************************)
(* The dependency scanner: scanImports, createScanResolver, scanFile.      *)
(***************************************************************************)
\* Largest number of import edges of a generated chain or cycle of files.
MaxChain == 3
\* Invocations of scanImports after the first.
MaxRescans == 1

\* `undefined` where a path or a resolved id is expected.
Undefined == [area |-> "", name |-> "", ext |-> ""]

\* A path or resolved id: the area it lies in ("src" and "packages" are
\* project sources, "node_modules" the dependency-install area, "virtual"
\* an id with a \0 marker, "bare" an id the hook returned as it was given),
\* its name and its extension.
File(area, name, ext) == [area |-> area, name |-> name, ext |-> ext]

\* An import specifier as written in a file: relative ('./name') or bare.
Relative(name) == [bare |-> FALSE, name |-> name]
Bare(name) == [bare |-> TRUE, name |-> name]
NoSpecifier == [bare |-> FALSE, name |-> ""]

\* File i of a generated chain, and the specifier that imports it:
\* `${i}.js` and './${i}' of the benchmark setup.
ChainFile(i) == File("src", ToString(i), "js")
ChainImport(i) == Relative(ToString(i))

\* The projects scanned: a chain 0.js -> 1.js -> ... -> n.js; the same
\* chain closed into a cycle by n.js importing 0.js; two entries that import
\* the same two dependencies; an entry importing specifiers of the other
\* classes, in two variants; two entries that import a specifier the hook
\* resolves for one caller and not for the other.
NoLayout == [kind |-> "none", n |-> 0]
Layouts ==
  {[kind |-> k, n |-> n] : k \in {"chain", "cycle"}, n \in 1..MaxChain}
    \cup {[kind |-> "deps", n |-> 0], [kind |-> "flaky", n |-> 0]}
    \cup {[kind |-> "mixed", n |-> n] : n \in 1..2}

MainJs == File("src", "main", "js")
AJs == File("src", "a", "js")
BJs == File("src", "b", "js")
GoneJs == File("src", "gone", "js")
LogoSvg == File("src", "logo", "svg")
LinkedJs == File("packages", "linked", "js")

\* The files on disk of a project.
Files(l) ==
  CASE l.kind \in {"chain", "cycle"} -> {ChainFile(i) : i \in 0..l.n}
    [] l.kind \in {"deps", "flaky"} -> {AJs, BJs}
    [] l.kind = "mixed" -> {MainJs, LogoSvg, LinkedJs}
    [] OTHER -> {}

\* The entries handed to scanImports; GoneJs was deleted after the entries
\* were collected.
Entries(l) ==
  CASE l.kind \in {"chain", "cycle"} -> <<ChainFile(0)>>
    [] l.kind \in {"deps", "flaky"} -> <<AJs, BJs>>
    [] l.kind = "mixed" -> IF l.n = 1 THEN <<MainJs, GoneJs>> ELSE <<MainJs>>
    [] OTHER -> <<>>

\* The specifiers importExportRE extracts from the text of a file.
Specifiers(l, p) ==
  CASE l.kind \in {"chain", "cycle"} ->
         LET i == CHOOSE j \in 0..l.n : ChainFile(j) = p
         IN IF i < l.n THEN <<ChainImport(i + 1)>>
            ELSE IF l.kind = "cycle" THEN <<ChainImport(0)>>
            ELSE <<>>
    [] l.kind = "deps" -> <<Bare("dep"), Bare("ghost")>>
    [] l.kind = "flaky" -> <<Bare("flaky")>>
    [] l.kind = "mixed" ->
         IF p # MainJs THEN <<>>
         ELSE IF l.n = 1
           THEN <<Bare("@vite/client"), Bare("linked"), Bare("sheet")>>
           ELSE <<Bare("virtual"), Bare("fsevents"), Relative("logo")>>
    [] OTHER -> <<>>

\* What container.resolveId(id, undefined, { scan: true }) can come to.
\* 'dep' has two entry points in the dependency-install area and the hook
\* chain may settle on either; 'ghost' is installed nowhere; 'flaky' is
\* found for one caller and not for another (it is installed while the
\* scan runs, or only some importers can reach it).
resolveId(id) ==
  IF ~id.bare
    THEN IF id.name = "logo" THEN {LogoSvg}
         ELSE {File("src", id.name, "js")}
  ELSE CASE id.name = "dep" ->
              {File("node_modules", "dep", "js"),
               File("node_modules", "dep", "mjs")}
         [] id.name = "ghost" -> {Undefined}
         [] id.name = "flaky" ->
              {Undefined, File("node_modules", "flaky", "js")}
         [] id.name = "linked" -> {LinkedJs}
         [] id.name = "sheet" -> {File("node_modules", "sheet", "css")}
         [] id.name = "virtual" -> {File("virtual", "virtual", "js")}
         [] id.name = "fsevents" -> {File("bare", "fsevents", "")}
         [] OTHER -> {Undefined}

\* config.optimizeDeps.include and the exclude list of lines 66-70.
include == {Bare("linked")}
exclude == {Bare("@vite/client"), Bare("@vite/env")}

moduleListContains(list, id) == id \in list
bareImportRE(id) == id.bare
\* JS_TYPES_RE and htmlTypesRE (line 25)
JS_TYPES_RE(p) == p.ext \in {"js", "jsx", "ts", "tsx", "mjs"}
htmlTypesRE(p) == p.ext \in {"html", "vue", "svelte", "astro", "imba"}
\* isOptimizable(res, config.optimizeDeps): a script entry point.
isOptimizable(res) == res.ext \in {"js", "mjs", "cjs", "ts", "mts", "cts"}
\* res.includes('node_modules'), res.includes('\0'), id !== res
InNodeModules(res) == res.area = "node_modules"
IsVirtual(res) == res.area = "virtual"
DiffersFrom(id, res) == ~(res.area = "bare" /\ res.name = id.name)
\* path.dirname and normalizePath of a path
dirname(p) == p.area
normalizePath(p) == p

\* isScannable (lines 193-195)
isScannable(id) == JS_TYPES_RE(id) \/ htmlTypesRE(id)

\* parseCode (lines 179-191), followed by the extraction of the specifiers:
\* the specifiers of a script or markup file; none for another file type.
parseCode(l, filePath) ==
  IF JS_TYPES_RE(filePath) \/ htmlTypesRE(filePath)
    THEN [js |-> TRUE, specifiers |-> Specifiers(l, filePath)]
    ELSE [js |-> FALSE, specifiers |-> <<>>]

\* const key = id + (importer && path.dirname(importer)) (line 80)
SeenKey(id, importer) ==
  <<id, IF importer = Undefined THEN "undefined" ELSE dirname(importer)>>

Count(f, x) == IF x \in DOMAIN f THEN f[x] ELSE 0
Put(f, x, v) == [y \in DOMAIN f \cup {x} |-> IF y = x THEN v ELSE f[y]]

\* A task of the tasks array. A read task is fs.readFile(filePath).then(..)
\* .catch(..) of scanFile; a resolve task is resolver(importPath).then(..),
\* which awaits the resolve hook (pc "hook"), then has the resolver's
\* return value res (pc "ret"), then has run its callback (pc "done").
\* ctx tells whether the scanFile call that made the task was given the
\* scanContext.
ReadTask(filePath, ctx) ==
  [kind |-> "read", file |-> filePath, id |-> NoSpecifier,
   importer |-> Undefined, ctx |-> ctx, pc |-> "reading", res |-> Undefined,
   viaHook |-> FALSE]

ResolveTask(filePath, id, importer, ctx, r) ==
  [kind |-> "resolve", file |-> filePath, id |-> id, importer |-> importer,
   ctx |-> ctx, pc |-> r.pc, res |-> r.res, viaHook |-> r.pc = "hook"]

\* A lookup that finds no path registered.
hasNever(map, key) == FALSE

\* imports.has(filePath) (lines 128 and 161)
has(map, key) == key \in DOMAIN map

\* scanFile(filePath, resolver, tasks, imports, scanContext) (lines 121-173)
\* up to the start of the read, on st = [imports, tasks, reads].
scanFile(st, filePath, ctx) ==
  IF has(st.imports, filePath) THEN st
  ELSE [imports |-> Put(st.imports, filePath, <<>>),
        tasks |-> Append(st.tasks, ReadTask(filePath, ctx)),
        reads |-> Put(st.reads, filePath, Count(st.reads, filePath) + 1)]

\* for (const entry of entries) scanFile(entry, ..., scanContext)
RECURSIVE scanEntries(_, _)
scanEntries(st, entries) ==
  IF entries = <<>> THEN st
  ELSE scanEntries(scanFile(st, Head(entries), TRUE), Tail(entries))

\* The resolver (lines 72-83) up to its first await: what it returns at
\* once, or that it awaits the resolve hook.
resolver(id, importer, dep, sn) ==
  IF moduleListContains(exclude, id) THEN [pc |-> "ret", res |-> Undefined]
  ELSE IF id \in DOMAIN dep THEN [pc |-> "ret", res |-> Undefined]
  ELSE IF SeenKey(id, importer) \in DOMAIN sn
    THEN [pc |-> "ret", res |-> sn[SeenKey(id, importer)]]
  ELSE [pc |-> "hook", res |-> Undefined]

\* The classification without the tests of depImports[id], missing[id]
\* and importer.
classifyUnguarded(id, importer, res, dep, miss) ==
  IF /\ bareImportRE(id) /\ DiffersFrom(id, res) /\ ~IsVirtual(res)
     /\ ~moduleListContains(exclude, id)
    THEN IF res # Undefined
           THEN IF (InNodeModules(res) \/ id \in include) /\ isOptimizable(res)
                  THEN [dep |-> Put(dep, id, res), miss |-> miss,
                        wrote |-> id \notin DOMAIN dep]
                  ELSE [dep |-> dep, miss |-> miss, wrote |-> FALSE]
           ELSE [dep |-> dep, miss |-> Put(miss, id, normalizePath(importer)),
                 wrote |-> FALSE]
    ELSE [dep |-> dep, miss |-> miss, wrote |-> FALSE]

\* The classification without the test of depImports[id].
classifyOverwriting(id, importer, res, dep, miss) ==
  IF /\ bareImportRE(id) /\ DiffersFrom(id, res) /\ ~IsVirtual(res)
     /\ id \notin DOMAIN miss /\ ~moduleListContains(exclude, id)
    THEN IF res # Undefined
           THEN IF (InNodeModules(res) \/ id \in include) /\ isOptimizable(res)
                  THEN [dep |-> Put(dep, id, res), miss |-> miss, wrote |-> TRUE]
                  ELSE [dep |-> dep, miss |-> miss, wrote |-> FALSE]
         ELSE IF importer # Undefined
           THEN [dep |-> dep, miss |-> Put(miss, id, normalizePath(importer)),
                 wrote |-> FALSE]
         ELSE [dep |-> dep, miss |-> miss, wrote |-> FALSE]
    ELSE [dep |-> dep, miss |-> miss, wrote |-> FALSE]

\* The classification of lines 97-115 on the two records.
classify(id, importer, res, dep, miss) ==
  IF /\ bareImportRE(id) /\ DiffersFrom(id, res) /\ ~IsVirtual(res)
     /\ id \notin DOMAIN dep /\ id \notin DOMAIN miss
     /\ ~moduleListContains(exclude, id)
    THEN IF res # Undefined
           THEN IF (InNodeModules(res) \/ id \in include) /\ isOptimizable(res)
                  THEN [dep |-> Put(dep, id, res), miss |-> miss, wrote |-> TRUE]
                  ELSE [dep |-> dep, miss |-> miss, wrote |-> FALSE]
         ELSE IF importer # Undefined
           THEN [dep |-> dep, miss |-> Put(miss, id, normalizePath(importer)),
                 wrote |-> FALSE]
         ELSE [dep |-> dep, miss |-> miss, wrote |-> FALSE]
    ELSE [dep |-> dep, miss |-> miss, wrote |-> FALSE]

\* if (tasksLength !== tasks.length) never taken.
moreTasksNever(len, ts) == FALSE

\* if (tasksLength !== tasks.length) (line 49)
moreTasks(len, ts) == len # Len(ts)

\* scanContext?.cancelled in a closure of scanFile that was given the
\* context (ctx) or was not.
Cancelled(ctx) == ctx /\ scanContext.cancelled

(***************************************************************************)
(* Actions of the scanner.                                                 *)
(***************************************************************************)
\* scanImports(entries, config, imports, missing, scanContext) is called on
\* a project and suspends on createScanResolver (line 38).
StartScan(l) ==
  /\ scanPhase = "idle"
  /\ scanPhase' = "creating"
  /\ layout' = l
  /\ UNCHANGED <<scanContext, imports, depImports, missing, seen, tasks,
                 tasksLength, reads, depWrites, firstOpt, firstImporter>>
  /\ UNCHANGED nonScanVars

\* The caller sets scanContext.cancelled.
Cancel ==
  /\ scanPhase \in {"creating", "waiting"}
  /\ ~scanContext.cancelled
  /\ scanContext' = [scanContext EXCEPT !.cancelled = TRUE]
  /\ UNCHANGED <<scanPhase, layout, imports, depImports, missing, seen,
                 tasks, tasksLength, reads, depWrites, firstOpt,
                 firstImporter>>
  /\ UNCHANGED nonScanVars

\* The resolver is built (line 38); every entry is handed to scanFile
\* (lines 40-42) and the driver enters its loop (lines 45-47).
ResolverCreated ==
  /\ scanPhase = "creating"
  /\ LET st == scanEntries([imports |-> imports, tasks |-> tasks,
                            reads |-> reads], Entries(layout))
     IN /\ imports' = st.imports
        /\ tasks' = st.tasks
        /\ reads' = st.reads
        /\ tasksLength' = Len(st.tasks)
        /\ scanPhase' = IF Len(st.tasks) # 0 THEN "waiting" ELSE "returned"
  /\ UNCHANGED <<layout, scanContext, depImports, missing, seen, depWrites,
                 firstOpt, firstImporter>>
  /\ UNCHANGED nonScanVars

\* fs.readFile of read task t settles (lines 134-171): a rejection is
\* swallowed by the catch; otherwise, unless cancelled, the file is parsed
\* and the resolver is called for every specifier, without an importer
\* (line 153), each call becoming a task.
ReadDone(t) ==
  /\ tasks[t].kind = "read" /\ tasks[t].pc = "reading"
  /\ LET f == tasks[t].file
         ctx == tasks[t].ctx
         parsed == parseCode(layout, f)
         ids == parsed.specifiers
         done == [tasks EXCEPT ![t].pc = "done"]
     IN IF f \notin Files(layout) \/ Cancelled(ctx) \/ ~parsed.js
          THEN /\ tasks' = done
               /\ UNCHANGED firstImporter
          ELSE /\ tasks' = done \o
                    [k \in 1..Len(ids) |->
                       ResolveTask(f, ids[k], Undefined, ctx,
                                   resolver(ids[k], Undefined, depImports,
                                            seen))]
               /\ firstImporter' =
                    [id \in DOMAIN firstImporter
                            \cup {ids[k] : k \in 1..Len(ids)} |->
                       IF id \in DOMAIN firstImporter THEN firstImporter[id]
                       ELSE f]
  /\ UNCHANGED <<scanPhase, layout, scanContext, imports, depImports,
                 missing, seen, tasksLength, reads, depWrites, firstOpt>>
  /\ UNCHANGED nonScanVars

\* container.resolveId of resolve task t settles with res (lines 85-117):
\* the memo is set, the specifier is classified, the resolver returns res.
HookDone(t, res) ==
  /\ tasks[t].kind = "resolve" /\ tasks[t].pc = "hook"
  /\ LET id == tasks[t].id
         importer == tasks[t].importer
         c == classify(id, importer, res, depImports, missing)
     IN /\ seen' = Put(seen, SeenKey(id, importer), res)
        /\ depImports' = c.dep
        /\ missing' = c.miss
        /\ depWrites' = IF c.wrote
                          THEN Put(depWrites, id, Count(depWrites, id) + 1)
                          ELSE depWrites
        /\ firstOpt' = IF /\ id \notin DOMAIN firstOpt
                          /\ bareImportRE(id) /\ InNodeModules(res)
                          /\ isOptimizable(res)
                         THEN Put(firstOpt, id, res)
                         ELSE firstOpt
        /\ tasks' = [tasks EXCEPT ![t].pc = "ret", ![t].res = res]
  /\ UNCHANGED <<scanPhase, layout, scanContext, imports, tasksLength,
                 reads, firstImporter>>
  /\ UNCHANGED nonScanVars

\* The callback of resolver(importPath).then of resolve task t (lines
\* 153-166): unless cancelled, the import is recorded in the file's list
\* and a scannable project file not yet registered is handed to scanFile,
\* without the scanContext (line 164).
ThenCallback(t) ==
  /\ tasks[t].kind = "resolve" /\ tasks[t].pc = "ret"
  /\ LET resolved == tasks[t].res
         done == [tasks EXCEPT ![t].pc = "done"]
         pushed == [imports EXCEPT ![tasks[t].file] =
                      Append(@, [id |-> tasks[t].id, resolved |-> resolved])]
         st == [imports |-> pushed, tasks |-> done, reads |-> reads]
     IN IF Cancelled(tasks[t].ctx)
          THEN /\ tasks' = done
               /\ UNCHANGED <<imports, reads>>
          ELSE IF /\ resolved # Undefined /\ ~InNodeModules(resolved)
                  /\ ~has(pushed, resolved) /\ isScannable(resolved)
            THEN LET s == scanFile(st, resolved, FALSE)
                 IN /\ imports' = s.imports
                    /\ tasks' = s.tasks
                    /\ reads' = s.reads
            ELSE /\ imports' = pushed
                 /\ tasks' = done
                 /\ UNCHANGED reads
  /\ UNCHANGED <<scanPhase, layout, scanContext, depImports, missing, seen,
                 tasksLength, depWrites, firstOpt, firstImporter>>
  /\ UNCHANGED nonScanVars

\* await Promise.all(tasks) settles (lines 47-53): every task that was in
\* the array when the await started has finished. If tasks were added
\* meanwhile the finished batch is spliced off and the loop waits again;
\* otherwise scanImports returns.
BatchDone ==
  /\ scanPhase = "waiting"
  /\ \A t \in 1..tasksLength : tasks[t].pc = "done"
  /\ IF moreTasks(tasksLength, tasks)
       THEN /\ tasks' = SubSeq(tasks, tasksLength + 1, Len(tasks))
            /\ tasksLength' = Len(tasks) - tasksLength
            /\ UNCHANGED scanPhase
       ELSE /\ scanPhase' = "returned"
            /\ UNCHANGED <<tasks, tasksLength>>
  /\ UNCHANGED <<layout, scanContext, imports, depImports, missing, seen,
                 reads, depWrites, firstOpt, firstImporter>>
  /\ UNCHANGED nonScanVars

(***************************************************************************)
(* The scanner as a state machine.                                         *)
(***************************************************************************)
InitScan ==
  /\ scanPhase = "idle"
  /\ layout = NoLayout
  /\ scanContext = [cancelled |-> FALSE]
  /\ imports = <<>>
  /\ depImports = <<>>
  /\ missing = <<>>
  /\ seen = <<>>
  /\ tasks = <<>>
  /\ tasksLength = 0
  /\ reads = <<>>
  /\ depWrites = <<>>
  /\ firstOpt = <<>>
  /\ firstImporter = <<>>
  /\ rescans = 0

\* scanImports is called again on the same project and the same config
\* once the run before has returned and its tasks have settled: the tasks
\* array (line 37), the resolver with its memo (line 38) and the records
\* and context the caller passes are new; config.imports (line 41) is the
\* one of the run before. The histories start again with the run.
Rescan ==
  /\ scanPhase = "returned"
  /\ \A t \in 1..Len(tasks) : tasks[t].pc = "done"
  /\ rescans < MaxRescans
  /\ rescans' = rescans + 1
  /\ scanPhase' = "creating"
  /\ scanContext' = [cancelled |-> FALSE]
  /\ tasks' = <<>>
  /\ tasksLength' = 0
  /\ seen' = <<>>
  /\ depImports' = <<>>
  /\ missing' = <<>>
  /\ reads' = <<>>
  /\ depWrites' = <<>>
  /\ firstOpt' = <<>>
  /\ firstImporter' = <<>>
  /\ UNCHANGED <<layout, imports>>
  /\ UNCHANGED <<pipeVars, mwVars, warmVars>>

\* The steps the scheduler runs: every one of them is taken once enabled.
ScanStep ==
  \/ ResolverCreated
  \/ \E t \in 1..Len(tasks) : ReadDone(t)
  \/ \E t \in 1..Len(tasks) : \E res \in resolveId(tasks[t].id) :
        HookDone(t, res)
  \/ \E t \in 1..Len(tasks) : ThenCallback(t)
  \/ BatchDone

NextScan ==
  \/ \E l \in Layouts : StartScan(l)
  \/ Cancel
  \/ ScanStep

(***************************************************************************)
(* The transform middleware: viteTransformMiddleware.                      *)
(***************************************************************************)
\* Requests handed to the middleware.
MaxReqs == 2

ERR_OPTIMIZE_DEPS_PROCESSING_ERROR == "ERR_OPTIMIZE_DEPS_PROCESSING_ERROR"
ERR_OUTDATED_OPTIMIZED_DEP == "ERR_OUTDATED_OPTIMIZED_DEP"
\* The code of an error a hook throws that is none of the coded errors.
ERR_UNCLASSIFIED == "ERR_PLUGIN"
\* The error decodeURI throws for a malformed url.
URIError == [kind |-> "err", by |-> 0, code |-> "URIError"]

\* The errors a hook of the load chain can throw.
HookErrorCodes ==
  {ERR_OPTIMIZE_DEPS_PROCESSING_ERROR, ERR_OUTDATED_OPTIMIZED_DEP,
   ERR_UNCLASSIFIED}

\* const knownIgnoreList = new Set(['/', '/favicon.ico']) (line 42)
knownIgnoreList == {"/", "/favicon.ico"}

\* The requests clients send: method, req.url, and whether the Accept
\* header includes text/html.
MwRequests ==
  {[method |-> "GET", url |-> "/a.js", html |-> FALSE],
   [method |-> "GET", url |-> "/a.js?t=1", html |-> FALSE],
   [method |-> "GET", url |-> "/a.js", html |-> TRUE],
   [method |-> "GET", url |-> "/pub.js", html |-> FALSE],
   [method |-> "GET", url |-> "/a.js.map", html |-> FALSE],
   [method |-> "GET", url |-> "/deps/dep.js.map", html |-> FALSE],
   [method |-> "GET", url |-> "/img.png", html |-> FALSE],
   [method |-> "GET", url |-> "/public/logo.png", html |-> FALSE],
   [method |-> "GET", url |-> "/favicon.ico", html |-> FALSE],
   [method |-> "GET", url |-> "/%", html |-> FALSE],
   [method |-> "POST", url |-> "/a.js", html |-> FALSE]}

\* decodeURI throws on the url.
Malformed(url) == url = "/%"
\* withoutQuery.endsWith('.map') (line 74)
isSourceMap(url) == url \in {"/a.js.map", "/deps/dep.js.map"}
\* depsOptimizer?.isOptimizedDepUrl(url)
isOptimizedDepUrl(url) == url = "/deps/dep.js.map"
\* url.replace(/\.map($|\?)/, '$1') (line 109)
originalUrl(url) == IF url = "/a.js.map" THEN "/a.js" ELSE url
\* publicDir && url.startsWith(publicPath) (lines 124-128)
InPublicDir(url) == url = "/public/logo.png"
\* The dispatch condition of lines 156-165.
isJSRequest(url) == url \in {"/a.js", "/b.js", "/pub.js"}
isImportRequest(url) == FALSE
isCSSRequest(url) == FALSE
isHTMLProxy(url) == FALSE
IsModuleRequest(url) ==
  isJSRequest(url) \/ isImportRequest(url) \/ isCSSRequest(url)
    \/ isHTMLProxy(url)

\* The mode of the transformRequest call of line 199.
MwMode(html) == IF html THEN "html:" ELSE ""

\* No If-None-Match header; no fingerprint.
NoEtag == <<"", 0>>
\* result.etag: the weak content fingerprint of the code of the result
\* that computation c built.
getEtag(cs, c) == <<cs[c].url, cs[c].content>>

\* The fingerprint of the result cached on the Module of url for normal
\* execution: (await getModuleByUrl(url, false))?.transformResult?.etag.
CachedEtag(mods, cs, url) ==
  LET m == getModuleByUrl(mods, url)
  IN IF m.exists /\ m.transformResult # 0
       THEN getEtag(cs, m.transformResult) ELSE NoEtag

\* The comparison of lines 183-190 with the header ignored.
EtagMatchesAlways(ifNoneMatch, mods, cs, url) == TRUE

\* ifNoneMatch && ...?.transformResult?.etag === ifNoneMatch (lines 183-190)
EtagMatches(ifNoneMatch, mods, cs, url) ==
  ifNoneMatch # NoEtag /\ CachedEtag(mods, cs, url) = ifNoneMatch

\* A request as the middleware sees it. pc is the await it is suspended at
\* ("map", "inm", "transform") or "done"; call is the transformRequest call
\* it made (0 if none). The response: writableEnded is res.writableEnded,
\* sent what this middleware sent ("" nothing, "200", "304", "504", "map"),
\* ends the number of times it ended the response, statusMessage and etag
\* what it set, body whether it sent content. nexts counts the calls of
\* next, nextArg is the error passed to next, logged what was logged.
\* History: from is the earlier request whose response carried the
\* fingerprint this request sends in If-None-Match; servedBy the
\* computation that built the result sent; atCheck the cached fingerprint
\* found by the conditional-GET test; invAfter tells that the Module was
\* invalidated after this request was answered; invBetween that at the
\* test the Module had been invalidated since the earlier request was
\* answered, invSinceStart that it had been since the computation began
\* whose result the earlier response carried.
NewReq(q, ifNoneMatch, from, cs) ==
  [method |-> q.method, url |-> q.url, html |-> q.html,
   ifNoneMatch |-> ifNoneMatch, pc |-> "start", call |-> 0,
   writableEnded |-> FALSE, sent |-> "", ends |-> 0, statusMessage |-> "",
   etag |-> NoEtag, body |-> FALSE,
   nexts |-> 0, nextArg |-> NoRes, logged |-> {},
   from |-> from, servedBy |-> 0, atCheck |-> NoEtag,
   invAfter |-> FALSE, invBetween |-> FALSE, invSinceStart |-> FALSE]

\* return next() / return next(e) / the final next() of line 258
Next0(r) == [r EXCEPT !.pc = "done", !.nexts = @ + 1]
NextErr(r, e) == [r EXCEPT !.pc = "done", !.nexts = @ + 1, !.nextArg = e]

\* res.statusCode = 304; return res.end() (lines 193-194)
End304(r) ==
  [r EXCEPT !.pc = "done", !.sent = "304", !.ends = @ + 1,
            !.writableEnded = TRUE]

\* send(req, res, content, type, options): the response is ended with the
\* content and, for a transform result, its fingerprint.
send(r, kind, etag) ==
  [r EXCEPT !.pc = "done", !.sent = kind, !.ends = @ + 1,
            !.writableEnded = TRUE, !.body = TRUE, !.etag = etag]

\* The 504 answer of lines 227-231 and 238-242.
End504(r, message) ==
  IF ~r.writableEnded
    THEN [r EXCEPT !.sent = "504", !.statusMessage = message,
                   !.ends = @ + 1, !.writableEnded = TRUE]
    ELSE r

\* The catch block with the outdated-dependency error logged.
catchErrorLogsAll(r, e) ==
  IF e.code = ERR_OPTIMIZE_DEPS_PROCESSING_ERROR
    THEN [End504(r, "Optimize Deps Processing Error") EXCEPT
            !.pc = "done", !.logged = @ \cup {"error"}]
  ELSE IF e.code = ERR_OUTDATED_OPTIMIZED_DEP
    THEN [End504(r, "Outdated Optimize Dep") EXCEPT
            !.pc = "done", !.logged = @ \cup {"error"}]
  ELSE IF e.code = ERR_LOAD_URL THEN Next0(r)
  ELSE NextErr(r, e)

\* The catch block with every load failure handed to the error handler.
catchErrorNoDefer(r, e) ==
  IF e.code = ERR_OPTIMIZE_DEPS_PROCESSING_ERROR
    THEN [End504(r, "Optimize Deps Processing Error") EXCEPT
            !.pc = "done", !.logged = @ \cup {"error"}]
  ELSE IF e.code = ERR_OUTDATED_OPTIMIZED_DEP
    THEN [End504(r, "Outdated Optimize Dep") EXCEPT !.pc = "done"]
  ELSE NextErr(r, e)

\* The catch block going on to the error handler after a 504 answer.
catchErrorFallsThrough(r, e) ==
  IF e.code = ERR_OPTIMIZE_DEPS_PROCESSING_ERROR
    THEN [End504(r, "Optimize Deps Processing Error") EXCEPT
            !.pc = "done", !.logged = @ \cup {"error"}]
  ELSE IF e.code = ERR_OUTDATED_OPTIMIZED_DEP
    THEN NextErr(End504(r, "Outdated Optimize Dep"), e)
  ELSE IF e.code = ERR_LOAD_URL THEN Next0(r)
  ELSE NextErr(r, e)

\* The catch block of lines 223-256 on error e.
catchError(r, e) ==
  IF e.code = ERR_OPTIMIZE_DEPS_PROCESSING_ERROR
    THEN [End504(r, "Optimize Deps Processing Error") EXCEPT
            !.pc = "done", !.logged = @ \cup {"error"}]
  ELSE IF e.code = ERR_OUTDATED_OPTIMIZED_DEP
    THEN [End504(r, "Outdated Optimize Dep") EXCEPT !.pc = "done"]
  ELSE IF e.code = ERR_LOAD_URL THEN Next0(r)
  ELSE NextErr(r, e)

\* The url the pipeline is asked for: lines 61-64 and 167-169.
MwUrl(url) == removeTimestampQuery(url)

\* Lines 199-201: transformRequest is called for request r and awaited.
\* Yields the registry, the computations, the calls and the request.
MwTransform(r, reg, cs, cl, mods, t) ==
  LET tr == transformRequest(reg, cs, MwUrl(r.url), MwMode(r.html), mods, t)
  IN [reg |-> tr.reg, comps |-> tr.comps,
      calls |-> Append(cl, NewCall(MwUrl(r.url), MwMode(r.html), tr, cs)),
      req |-> [r EXCEPT !.pc = "transform", !.call = Len(cl) + 1]]

(***************************************************************************)
(* Actions of the middleware.                                              *)
(***************************************************************************)
\* The middleware is called with a request (lines 52-201) and runs to its
\* first await. from names the earlier response whose fingerprint the
\* client sends back in If-None-Match (0: no such header).
MwGet(q, from) ==
  /\ Len(reqs) < MaxReqs
  /\ from \in 0..Len(reqs)
  /\ from # 0 =>
        /\ reqs[from].sent = "200"
        /\ q.method = "GET" /\ IsModuleRequest(MwUrl(q.url))
        /\ MwUrl(reqs[from].url) = MwUrl(q.url)
  /\ LET ifNoneMatch == IF from = 0 THEN NoEtag ELSE reqs[from].etag
         r0 == NewReq(q, ifNoneMatch, from, comps)
         \* logger.warn(colors.yellow(warning)) (line 151)
         r == IF InPublicDir(MwUrl(q.url)) /\ ~isSourceMap(q.url)
                THEN [r0 EXCEPT !.logged = @ \cup {"warn"}] ELSE r0
     IN IF q.method # "GET" \/ q.url \in knownIgnoreList
          THEN /\ reqs' = Append(reqs, Next0(r))
               /\ UNCHANGED <<pendingRequests, comps, calls>>
        ELSE IF Malformed(q.url)
          THEN /\ reqs' = Append(reqs, NextErr(r, URIError))
               /\ UNCHANGED <<pendingRequests, comps, calls>>
        ELSE IF isSourceMap(q.url)
          THEN /\ reqs' = Append(reqs, [r EXCEPT !.pc = "map"])
               /\ UNCHANGED <<pendingRequests, comps, calls>>
        ELSE IF ~IsModuleRequest(MwUrl(q.url))
          THEN /\ reqs' = Append(reqs, Next0(r))
               /\ UNCHANGED <<pendingRequests, comps, calls>>
        ELSE IF ifNoneMatch # NoEtag
          THEN /\ reqs' = Append(reqs, [r EXCEPT !.pc = "inm"])
               /\ UNCHANGED <<pendingRequests, comps, calls>>
        ELSE LET t == MwTransform(r, pendingRequests, comps, calls, modules,
                                  now)
             IN /\ reqs' = Append(reqs, t.req)
                /\ pendingRequests' = t.reg
                /\ comps' = t.comps
                /\ calls' = t.calls
  /\ UNCHANGED <<now, modules, fileVersion, scanVars, warmVars>>

\* A source-map request after its await (lines 77-119): the map file of an
\* optimized dependency was read (ok) or could not be, and a real or an
\* empty map is sent; the map of a cached transform result is sent if the
\* Module has a cached result with a map (hasMap), else the request is
\* deferred.
MwMap(i, ok, hasMap) ==
  /\ reqs[i].pc = "map"
  /\ LET r == reqs[i]
         m == getModuleByUrl(modules, originalUrl(r.url))
     IN reqs' = [reqs EXCEPT ![i] =
          IF isOptimizedDepUrl(r.url) THEN send(r, "map", NoEtag)
          ELSE IF m.exists /\ m.transformResult # 0 /\ hasMap
            THEN send(r, "map", NoEtag)
          ELSE Next0(r)]
  /\ UNCHANGED <<pipeVars, fileVersion, scanVars, warmVars>>

\* The conditional-GET test after await getModuleByUrl (lines 183-201):
\* 304 if the cached fingerprint is the one sent, else the pipeline is
\* called.
MwInmChecked(i) ==
  /\ reqs[i].pc = "inm"
  /\ LET f == reqs[reqs[i].from]
         r == [reqs[i] EXCEPT
                 !.atCheck = CachedEtag(modules, comps, MwUrl(reqs[i].url)),
                 !.invBetween = f.invAfter,
                 !.invSinceStart = comps[f.servedBy].inv]
     IN IF EtagMatches(r.ifNoneMatch, modules, comps, MwUrl(r.url))
          THEN /\ reqs' = [reqs EXCEPT ![i] = End304(r)]
               /\ UNCHANGED <<pendingRequests, comps, calls>>
          ELSE LET t == MwTransform(r, pendingRequests, comps, calls,
                                    modules, now)
               IN /\ reqs' = [reqs EXCEPT ![i] = t.req]
                  /\ pendingRequests' = t.reg
                  /\ comps' = t.comps
                  /\ calls' = t.calls
  /\ UNCHANGED <<now, modules, fileVersion, scanVars, warmVars>>

\* await transformRequest(...) of request i settles (lines 199-258): a
\* result is sent with its fingerprint; without a result the request falls
\* through to next(); an error goes to the catch block.
MwResult(i) ==
  /\ reqs[i].pc = "transform"
  /\ calls[reqs[i].call].st = "wait"
  /\ comps[calls[reqs[i].call].src].pc = "settled"
  /\ LET r == reqs[i]
         res == comps[calls[r.call].src].res
     IN reqs' = [reqs EXCEPT ![i] =
          IF res.kind = "ok"
            THEN [send(r, "200", getEtag(comps, res.by)) EXCEPT
                    !.servedBy = res.by]
          ELSE IF res.kind = "null" THEN Next0(r)
          ELSE catchError(r, res)]
  /\ UNCHANGED <<pipeVars, fileVersion, scanVars, warmVars>>

\* Something other than this middleware ends the response of a request in
\* flight (the client is gone, a timeout handler answered).
ExternalEnd(i) ==
  /\ reqs[i].pc = "transform"
  /\ ~reqs[i].writableEnded
  /\ reqs' = [reqs EXCEPT ![i].writableEnded = TRUE]
  /\ UNCHANGED <<pipeVars, fileVersion, scanVars, warmVars>>

\* A hook of the load chain of computation c throws an error with a code.
LoadThrows(c, code) ==
  /\ comps[c].pc = "load"
  /\ LET s == Settle(pendingRequests, comps, c, ErrRes(c, code))
     IN pendingRequests' = s.reg /\ comps' = s.comps
  /\ UNCHANGED <<now, modules, calls>>
  /\ UNCHANGED nonPipeVars

\* The file of url u is edited: its content changes and the watcher
\* invalidates its Module.
FileChange(u) ==
  /\ modules[u].exists
  /\ fileVersion' = [fileVersion EXCEPT ![u] = 1 - @]
  /\ modules' = [modules EXCEPT
                   ![u].lastInvalidationTimestamp = now,
                   ![u].transformResult = 0,
                   ![u].ssrTransformResult = 0]
  /\ comps' = [c \in 1..Len(comps) |->
                IF comps[c].url = u THEN [comps[c] EXCEPT !.inv = TRUE]
                                    ELSE comps[c]]
  /\ reqs' = [i \in 1..Len(reqs) |->
                IF reqs[i].pc = "done" /\ MwUrl(reqs[i].url) = u
                  THEN [reqs[i] EXCEPT !.invAfter = TRUE] ELSE reqs[i]]
  /\ UNCHANGED <<now, pendingRequests, calls, scanVars, warmVars>>

\* The requests of a browser that loads one module again and again while
\* the file is edited.
ReloadRequests ==
  {q \in MwRequests :
     q.method = "GET" /\ ~q.html /\ MwUrl(q.url) = "/a.js"}

\* The browser asks for the module again once its earlier requests are
\* answered, sending the fingerprint of an earlier answer or none.
Reload(q, from) ==
  /\ \A k \in 1..Len(reqs) : reqs[k].pc = "done"
  /\ MwGet(q, from)

\* Conditional requests served while files are edited.
NextMw ==
  \/ Tick
  \/ \E u \in ModUrls : FileChange(u)
  \/ \E q \in ReloadRequests : \E from \in 0..Len(reqs) : Reload(q, from)
  \/ \E i \in 1..Len(reqs) : MwInmChecked(i)
  \/ \E i \in 1..Len(reqs) : MwResult(i)
  \/ \E c \in 1..Len(comps) : Lookup(c)
  \/ \E c \in 1..Len(comps), out \in LoadOutcomes : Loaded(c, out)
  \/ \E c \in 1..Len(comps) : Ensured(c)
  \/ \E c \in 1..Len(comps) : Transformed(c)

\* Requests of every kind served while hooks may throw and responses may be
\* ended by others.
NextMwErr ==
  \/ \E q \in MwRequests : \E from \in 0..Len(reqs) : MwGet(q, from)
  \/ \E i \in 1..Len(reqs) : \E ok, hasMap \in BOOLEAN : MwMap(i, ok, hasMap)
  \/ \E i \in 1..Len(reqs) : MwInmChecked(i)
  \/ \E i \in 1..Len(reqs) : MwResult(i)
  \/ \E i \in 1..Len(reqs) : ExternalEnd(i)
  \/ \E i \in 1..Len(calls) : PendingCheck(i)
  \/ \E c \in 1..Len(comps) : Lookup(c)
  \/ \E c \in 1..Len(comps), out \in LoadOutcomes : Loaded(c, out)
  \/ \E c \in 1..Len(comps), code \in HookErrorCodes : LoadThrows(c, code)
  \/ \E c \in 1..Len(comps) : Ensured(c)
  \/ \E c \in 1..Len(comps) : Transformed(c)

(***************************************************************************)
(* The eager-prefetch warmer: eagerTransformPlugin.                        *)
(***************************************************************************)
\* Times the scanner records the import list of a file, and load events.
MaxScans == 2
MaxLoads == 3

\* config.root
root == "/root"
FS_PREFIX == "/@fs"

\* A file id is a directory and the path below it; its text is the two
\* joined.
AId == <<root, "/a.js">>
BId == <<root, "/b.js">>
LibId == <<"", "/lib/c.js">>
VirtualId == <<"", "virtual:x">>
IdText(id) == id[1] \o id[2]

\* (await pluginContainer.resolveId(url, undefined, { ssr }))?.id || url
\* (transformRequest.ts lines 134-135)
IdOfUrl(url) ==
  CASE url = "/a.js" -> AId
    [] url = "/b.js" -> BId
    [] url = "/@fs/lib/c.js" -> LibId
    [] url = "virtual:x" -> VirtualId
    [] OTHER -> <<"", url>>

FileIds == {IdOfUrl(u) : u \in ModUrls}

\* fs.existsSync(cleanUrl(id))
existsSync(id) == id = LibId

\* normalizeIdToUrl (lines 16-27): the path below the root; the path with
\* the filesystem prefix for a file outside the root; else the id itself.
normalizeIdToUrl(id) ==
  IF id[1] = root THEN id[2]
  ELSE IF existsSync(id) THEN FS_PREFIX \o IdText(id)
  ELSE IdText(id)

\* The import list the scanner records for a file: the resolved ids of its
\* import specifiers.
ScannedImports(id) ==
  CASE id = AId -> <<BId>>
    [] id = BId -> <<AId, LibId, VirtualId>>
    [] OTHER -> <<>>

\* The files the scanner records import lists for.
ScannedFiles == {id \in FileIds : ScannedImports(id) # <<>>}

\* Map.delete
Remove(f, x) == [y \in DOMAIN f \ {x} |-> f[y]]

\* The load hook without the delete of line 40.
loadKeeps(meta, id) ==
  [meta |-> meta,
   imports |-> IF id \in DOMAIN meta THEN meta[id] ELSE <<>>]

\* load(id, opts), lines 37-40: the recorded imports of id, if any, are
\* taken and the entry is deleted. Yields the metadata map afterwards and
\* the imports to prefetch.
load(meta, id) ==
  [meta |-> Remove(meta, id),
   imports |-> IF id \in DOMAIN meta THEN meta[id] ELSE <<>>]

\* The hot-update hook without the delete.
handleHotUpdateKeeps(meta, file) == meta

\* handleHotUpdate({ file }), lines 51-53
handleHotUpdate(meta, file) == Remove(meta, file)

\* The urls of a list of imports (line 42).
RECURSIVE PrefetchUrls(_)
PrefetchUrls(imps) ==
  IF imps = <<>> THEN <<>>
  ELSE <<normalizeIdToUrl(Head(imps))>> \o PrefetchUrls(Tail(imps))

\* The loop of lines 41-47: transformRequest is called for each url in
\* turn and not awaited. st holds the registry, the computations and the
\* calls.
RECURSIVE Prefetch(_, _, _, _, _)
Prefetch(urls, mode, st, mods, t) ==
  IF urls = <<>> THEN st
  ELSE LET r == transformRequest(st.reg, st.comps, Head(urls), mode, mods, t)
       IN Prefetch(Tail(urls), mode,
                   [reg |-> r.reg, comps |-> r.comps,
                    calls |-> Append(st.calls,
                                     NewCall(Head(urls), mode, r, st.comps))],
                   mods, t)

\* { ssr: opts?.ssr } (line 43)
PrefetchMode(mode) == IF IsSsr(mode) THEN "ssr:" ELSE ""

\* The history of the lists recorded for a file.
Scanned(sc, id) ==
  IF id \in DOMAIN sc THEN sc[id] ELSE [n |-> 0, changed |-> FALSE]

\* Number of import lists recorded so far.
RECURSIVE SumScans(_, _)
SumScans(sc, ids) ==
  IF ids = {} THEN 0
  ELSE LET id == CHOOSE x \in ids : TRUE
       IN sc[id].n + SumScans(sc, ids \ {id})

(***************************************************************************)
(* Actions of the warmer.                                                  *)
(***************************************************************************)
\* The scanner records the import list of file id.
RecordScan(id) ==
  /\ SumScans(scans, ScannedFiles) < MaxScans
  /\ fileImportsMetadata' = Put(fileImportsMetadata, id, ScannedImports(id))
  /\ scans' = [scans EXCEPT ![id] = [n |-> @.n + 1, changed |-> FALSE]]
  /\ UNCHANGED <<pipeVars, loads, scanVars, mwVars>>

\* Number of load events so far.
RECURSIVE SumLoads(_, _)
SumLoads(ld, ids) ==
  IF ids = {} THEN 0
  ELSE LET id == CHOOSE x \in ids : TRUE
       IN Len(ld[id]) + SumLoads(ld, ids \ {id})

\* The plugin container calls the load hook of the warmer for file id
\* (lines 36-49), for the server-side mode if ssr. History: loads gets the
\* number of the recorded list of the file, the urls prefetched, and
\* whether the file had changed since its list was recorded.
LoadEvent(id, ssr) ==
  /\ SumLoads(loads, FileIds) < MaxLoads
  /\ LET l == load(fileImportsMetadata, id)
         urls == PrefetchUrls(l.imports)
         st == Prefetch(urls, PrefetchMode(IF ssr THEN "ssr:" ELSE ""),
                        [reg |-> pendingRequests, comps |-> comps,
                         calls |-> calls],
                        modules, now)
     IN /\ fileImportsMetadata' = l.meta
        /\ pendingRequests' = st.reg
        /\ comps' = st.comps
        /\ calls' = st.calls
        /\ loads' = [loads EXCEPT ![id] =
                       Append(@, [gen |-> Scanned(scans, id).n,
                                  issued |-> urls,
                                  changed |-> Scanned(scans, id).changed])]
  /\ UNCHANGED <<now, modules, scans, scanVars, mwVars>>

\* A file changes and the hot-update hook of the warmer runs (lines
\* 51-53).
HotUpdate(file) ==
  /\ fileImportsMetadata' = handleHotUpdate(fileImportsMetadata, file)
  /\ scans' = [scans EXCEPT ![file].changed = TRUE]
  /\ UNCHANGED <<pipeVars, loads, scanVars, mwVars>>

\* Load events and file changes while the scanner records import lists.
NextWarm ==
  \/ \E id \in ScannedFiles : RecordScan(id)
  \/ \E file \in ScannedFiles : HotUpdate(file)
  \/ \E id \in FileIds, ssr \in BOOLEAN : LoadEvent(id, ssr)

(***************************************************************************)
(* Specifications.                                                         *)
(***************************************************************************)
InitMw ==
  /\ reqs = <<>>
  /\ fileVersion = [u \in ModUrls |-> 0]

InitWarm ==
  /\ fileImportsMetadata = <<>>
  /\ scans = [id \in ScannedFiles |-> [n |-> 0, changed |-> FALSE]]
  /\ loads = [id \in FileIds |-> <<>>]

Init == InitPipe /\ InitScan /\ InitMw /\ InitWarm

vars == <<pipeVars, scanVars, mwVars, warmVars>>

\* The transform pipeline; no scan runs.
Spec == Init /\ [][NextPipe]_vars

\* Several callers of one module whose file is edited in the millisecond
\* in which they arrive: a pending entry is then never younger than the
\* invalidation, and every caller that finds it after the edit aborts it.
NextCallers ==
  \/ \E u \in ModUrls : Invalidate(u)
  \/ Caller
  \/ \E i \in 1..Len(calls) : PendingCheck(i)
  \/ \E c \in 1..Len(comps) : Lookup(c)
  \/ \E c \in 1..Len(comps), out \in LoadOutcomes : Loaded(c, out)
  \/ \E c \in 1..Len(comps) : Ensured(c)
  \/ \E c \in 1..Len(comps) : Transformed(c)

SpecCallers == Init /\ [][NextCallers]_vars

\* Conditional requests served by the transform middleware while files are
\* edited.
SpecMw == Init /\ [][NextMw]_vars

\* Requests of every kind served by the transform middleware while hooks
\* throw.
SpecMwErr == Init /\ [][NextMwErr]_vars

\* Load events of the plugin container while import lists are recorded
\* and files change.
SpecWarm == Init /\ [][NextWarm]_vars

\* Runs of the scanner one after the other on one config.
NextRescan ==
  \/ \E l \in Layouts : StartScan(l)
  \/ Cancel
  \/ Rescan
  \/ ResolverCreated
  \/ \E t \in 1..Len(tasks) : ReadDone(t)
  \/ \E t \in 1..Len(tasks) : \E res \in resolveId(tasks[t].id) :
        HookDone(t, res)
  \/ \E t \in 1..Len(tasks) : ThenCallback(t)
  \/ BatchDone

SpecRescan ==
  /\ Init
  /\ [][NextRescan]_vars
  /\ WF_vars(ScanStep)

\* One run of the scanner; no request is served. Every file read and every
\* hook call settles and every callback runs.
SpecScan ==
  /\ Init
  /\ [][NextScan]_vars
  /\ WF_vars(ScanStep)

(***************************************************************************)
(* Properties of the transform pipeline.                                   *)
(***************************************************************************)
\* The future call i returned has settled: its caller has the outcome.
Settled(i) == calls[i].st = "wait" /\ comps[calls[i].src].pc = "settled"

\* The outcome call i's caller receives.
Outcome(i) == comps[calls[i].src].res

\* Invocations of the load hook chain by computation q so far: none while
\* it awaits the lookup, and none if it returned a cached result.
LoadCalls(q) ==
  IF comps[q].pc = "lookup" THEN 0
  ELSE IF comps[q].pc = "settled" /\ comps[q].res.kind = "ok"
            /\ comps[q].res.by # q THEN 0
  ELSE 1

\* Invocations of the transform hook chain by computation q so far.
TransformCalls(q) ==
  IF comps[q].pc = "transform" \/ (comps[q].pc = "settled" /\ comps[q].res = OkRes(q))
    THEN 1 ELSE 0

\* Hook invocations of the computations that serve calls i and j.
LoadCallsFor(i, j) ==
  IF calls[i].src = calls[j].src THEN LoadCalls(calls[i].src)
  ELSE LoadCalls(calls[i].src) + LoadCalls(calls[j].src)

TransformCallsFor(i, j) ==
  IF calls[i].src = calls[j].src THEN TransformCalls(calls[i].src)
  ELSE TransformCalls(calls[i].src) + TransformCalls(calls[j].src)

\* Call j was issued for the cache key of call i while the computation
\* call i had started was pending, and the Module has not been invalidated
\* since call i was issued.
Concurrent(i, j) ==
  /\ i < j
  /\ calls[i].created # 0
  /\ calls[j].found = calls[i].created
  /\ ~comps[calls[i].created].inv

\* C1 as stated: of two concurrent calls for the same url and mode with no
\* invalidation in between, once both callers have their outcome the load
\* hook and the transform hook were each invoked exactly once and the
\* outcomes are the same.
C1_Original ==
  \A i, j \in 1..Len(calls) :
    (Concurrent(i, j) /\ Settled(i) /\ Settled(j)) =>
      /\ LoadCallsFor(i, j) = 1
      /\ TransformCallsFor(i, j) = 1
      /\ Outcome(i) = Outcome(j)

\* C1 amended: if moreover the Module, when there is one, was last
\* invalidated before the millisecond in which the first call started, the
\* second call starts no computation and returns the first call's future,
\* so that the load hook and the transform hook are each invoked at most
\* once for the two calls and both callers receive the same outcome.
C1_SingleFlight ==
  \A i, j \in 1..Len(calls) :
    (Concurrent(i, j) /\ comps[calls[i].created].fresh) =>
      /\ calls[j].src \in {0, calls[i].created}
      /\ calls[j].src = 0 <=> calls[j].st = "check"
      /\ (Settled(i) /\ Settled(j)) =>
            /\ LoadCallsFor(i, j) <= 1
            /\ TransformCallsFor(i, j) <= 1
            /\ Outcome(i) = Outcome(j)

\* Two concurrent calls have both received the result one computation
\* built with one load and one transform.
C1_Witness ==
  \E i, j \in 1..Len(calls) :
    /\ Concurrent(i, j) /\ comps[calls[i].created].fresh
    /\ Settled(i) /\ Settled(j)
    /\ Outcome(j) = OkRes(calls[i].created)
    /\ LoadCallsFor(i, j) = 1 /\ TransformCallsFor(i, j) = 1

\* C2: a call that finds a pending request whose Module was invalidated
\* after the pending request started never returns that request's future:
\* the future it returns is that of a computation started after the call
\* was issued (hence after the invalidation), and it has invoked the abort
\* of the pending request it found.
C2_StalenessSupersedesReuse ==
  \A i \in 1..Len(calls) :
    calls[i].stale =>
      /\ calls[i].src # calls[i].found
      /\ calls[i].src # 0 =>
            /\ calls[i].abortedFound
            /\ calls[i].src > calls[i].nAtIssue
            /\ comps[calls[i].src].key = cacheKey(calls[i].url, calls[i].mode)

\* A call that found a stale pending request has received the result of a
\* later computation while the stale one is still running.
C2_Witness ==
  \E i \in 1..Len(calls) :
    /\ calls[i].stale /\ Settled(i)
    /\ Outcome(i).kind = "ok"
    /\ comps[calls[i].found].pc # "settled"

\* The cache slots of the Module of url u.
Slots(u) == {modules[u].transformResult, modules[u].ssrTransformResult}

\* C3: a result held in a cache slot was built by a computation of that
\* Module during which the Module was not invalidated; a computation during
\* which it was invalidated leaves the slot as it found it.
C3_CachedResultValid ==
  /\ \A u \in ModUrls : \A q \in Slots(u) \ {0} :
        /\ q \in 1..Len(comps)
        /\ comps[q].url = u
        /\ comps[q].res = OkRes(q)
        /\ ~comps[q].inv
  /\ \A q \in 1..Len(comps) :
        (comps[q].res = OkRes(q) /\ comps[q].finInv >= comps[q].ts) =>
          ~comps[q].wrote

\* A stale computation finished after a fresher one had stored its result,
\* and the slot still holds the fresher result.
C3_Witness ==
  \E a, b \in 1..Len(comps) :
    /\ a < b
    /\ comps[a].res = OkRes(a) /\ comps[a].inv /\ ~comps[a].wrote
    /\ comps[a].prevSlot = b
    /\ Slot(modules[comps[a].url], comps[a].mode) = b

\* C4 as stated: the result is stored exactly when the last-invalidation
\* timestamp is at most the start timestamp, equality included.
C4_Original ==
  \A q \in 1..Len(comps) :
    comps[q].res = OkRes(q) =>
      (comps[q].wrote <=> comps[q].finInv <= comps[q].ts)

\* C4 amended: the result is stored exactly when the start timestamp is
\* strictly greater than the last-invalidation timestamp; when the two are
\* equal the result is discarded.
C4_CacheWriteGuard ==
  \A q \in 1..Len(comps) :
    comps[q].res = OkRes(q) =>
      (comps[q].wrote <=> comps[q].ts > comps[q].finInv)

\* A computation finished with the two timestamps equal and discarded its
\* result.
C4_Witness ==
  \E q \in 1..Len(comps) :
    /\ comps[q].res = OkRes(q)
    /\ comps[q].finInv = comps[q].ts
    /\ ~comps[q].wrote

\* C5: the registry holds, per cache key, at most one computation, and it
\* is exactly the one of that key that is neither aborted nor settled;
\* every computation's entry is deleted at most once, and exactly once by
\* the time it has settled.
C5_PendingRegistry ==
  /\ \A k \in Keys : pendingRequests[k] # 0 =>
        /\ pendingRequests[k] \in 1..Len(comps)
        /\ comps[pendingRequests[k]].key = k
        /\ ~comps[pendingRequests[k]].cleared
        /\ comps[pendingRequests[k]].pc # "settled"
  /\ \A q \in 1..Len(comps) :
        /\ comps[q].removals <= 1
        /\ comps[q].cleared <=> comps[q].removals = 1
        /\ ~comps[q].cleared => pendingRequests[comps[q].key] = q
        /\ comps[q].pc = "settled" =>
              comps[q].removals = 1 /\ pendingRequests[comps[q].key] # q

\* An aborted computation has settled while a newer computation of the
\* same cache key is registered.
C5_Witness ==
  \E q \in 1..Len(comps) :
    /\ comps[q].abortedFirst /\ comps[q].pc = "settled"
    /\ comps[q].removals = 1
    /\ pendingRequests[comps[q].key] > q

(***************************************************************************)
(* Properties of the scanner.                                              *)
(***************************************************************************)
\* scanImports has returned from a run in which the cancellation flag was
\* never set.
ReturnedUncancelled == scanPhase = "returned" /\ ~scanContext.cancelled

C7_CycleSafety ==
  /\ (layout.kind = "cycle") ~> (scanPhase = "returned")
  /\ [](\A p \in DOMAIN reads : reads[p] <= 1 /\ p \in DOMAIN imports)
  /\ [](\A t \in 1..Len(tasks) :
          tasks[t].kind = "read" => tasks[t].file \in DOMAIN imports)

\* The scan of the longest cycle has returned: the last file's import of
\* the entry was resolved and recorded, and the entry was read once.
C7_Witness ==
  /\ layout = [kind |-> "cycle", n |-> MaxChain]
  /\ scanPhase = "returned"
  /\ DOMAIN imports = Files(layout)
  /\ imports[ChainFile(MaxChain)] =
       <<[id |-> ChainImport(0), resolved |-> ChainFile(0)]>>
  /\ \A p \in Files(layout) : Count(reads, p) = 1

\* C8 as stated: once the cancellation flag is set no step appends an
\* import entry, registers or reads a file, or classifies a specifier as
\* optimizable or missing.
C8_CancelledStepsAreNoOps ==
  [][scanContext.cancelled =>
       /\ imports' = imports
       /\ reads' = reads
       /\ depImports' = depImports
       /\ missing' = missing]_vars

\* The scanned files that import specifier id.
Importers(id) ==
  {p \in DOMAIN imports :
     \E k \in 1..Len(imports[p]) : imports[p][k].id = id}

\* C9 as stated: when the scan has returned, every bare specifier recorded
\* in a scanned file's import list that the resolve hook cannot resolve is
\* in the missing mapping, mapped to the first file found importing it.
C9_MissingRecorded ==
  scanPhase = "returned" =>
    \A id \in DOMAIN firstImporter :
      (bareImportRE(id) /\ resolveId(id) = {Undefined}
         /\ ~moduleListContains(exclude, id) /\ Importers(id) # {}) =>
        /\ id \in DOMAIN missing
        /\ missing[id] = firstImporter[id]

\* C10: the optimizable-deps mapping is written at most once per specifier;
\* once the hook has resolved a bare specifier to an optimizable path of
\* the dependency-install area, the specifier is recorded, with the path of
\* its first such resolution, whatever later resolutions return.
C10_OptimizableRecordedOnce ==
  /\ \A id \in DOMAIN depWrites : depWrites[id] <= 1
  /\ \A id \in DOMAIN depImports : Count(depWrites, id) = 1
  /\ \A id \in DOMAIN firstOpt :
        /\ id \in DOMAIN depImports
        /\ depImports[id] = firstOpt[id]

\* Two resolutions of 'dep' were in flight together and settled on
\* different paths: the memo holds the second, the mapping the first.
C10_Witness ==
  /\ Bare("dep") \in DOMAIN depImports
  /\ SeenKey(Bare("dep"), Undefined) \in DOMAIN seen
  /\ seen[SeenKey(Bare("dep"), Undefined)] # depImports[Bare("dep")]
  /\ depWrites[Bare("dep")] = 1
  /\ \A p \in {AJs, BJs} :
        \E k \in 1..Len(imports[p]) :
          imports[p][k].id = Bare("dep")
            /\ imports[p][k].resolved # Undefined

Tested(i) == reqs[i].from # 0 /\ reqs[i].pc \notin {"start", "inm"}

LoadFailed(c) ==
  /\ comps[c].pc = "settled"
  /\ comps[c].res.kind = "err"
  /\ comps[c].res.code \notin HookErrorCodes

\* C13: a computation that obtains no code for a url under the
\* public-assets prefix fails with the public-asset-misuse code, and for
\* any other url with the generic not-found code.
C13_PublicAssetDiagnostic ==
  \A c \in 1..Len(comps) :
    LoadFailed(c) =>
      /\ ~IsHtml(comps[c].mode)
      /\ checkPublicFile(comps[c].url) =>
           comps[c].res.code = ERR_LOAD_PUBLIC_URL
      /\ ~checkPublicFile(comps[c].url) => comps[c].res.code = ERR_LOAD_URL

\* Both kinds of load failure have happened.
C13_Witness ==
  /\ \E c \in 1..Len(comps) :
       LoadFailed(c) /\ checkPublicFile(comps[c].url)
         /\ comps[c].res.code = ERR_LOAD_PUBLIC_URL
  /\ \E c \in 1..Len(comps) :
       LoadFailed(c) /\ ~checkPublicFile(comps[c].url)
         /\ comps[c].res.code = ERR_LOAD_URL

\* The error the pipeline call of request i ended with, if it did.
PipelineError(i) ==
  IF reqs[i].call # 0 /\ reqs[i].pc = "done"
       /\ comps[calls[reqs[i].call].src].res.kind = "err"
    THEN comps[calls[reqs[i].call].src].res.code ELSE ""

\* Request i was deferred: next was called once without an error and the
\* middleware sent nothing.
Deferred(i) ==
  /\ reqs[i].nexts = 1 /\ reqs[i].nextArg = NoRes
  /\ reqs[i].sent = "" /\ reqs[i].ends = 0

\* C14: a request whose pipeline call fails with the public-asset-misuse
\* error is deferred to the next handler as one failing with the
\* load-not-found error is: no error is handed on and no response is sent.
C14_PublicAssetDeferred ==
  \A i \in 1..Len(reqs) :
    PipelineError(i) = ERR_LOAD_PUBLIC_URL => Deferred(i)

\* The middleware answered request i with 504 and the reason phrase, or
\* left alone a response that something else had ended before.
Answered504(i, message) ==
  \/ /\ reqs[i].sent = "504" /\ reqs[i].statusMessage = message
     /\ reqs[i].ends = 1 /\ ~reqs[i].body
  \/ /\ reqs[i].sent = "" /\ reqs[i].ends = 0 /\ reqs[i].writableEnded

\* C15: a request whose pipeline call fails with the
\* optimizer-still-processing error is answered 504 with the reason phrase
\* unless its response was ended before, and the error is logged; one that
\* fails with the optimized-dependency-outdated error is answered 504 the
\* same way and nothing is logged; in neither case is next called, with or
\* without an error.
C15_TransientOptimizerErrors ==
  \A i \in 1..Len(reqs) :
    /\ PipelineError(i) = ERR_OPTIMIZE_DEPS_PROCESSING_ERROR =>
         /\ Answered504(i, "Optimize Deps Processing Error")
         /\ reqs[i].logged = {"error"}
         /\ reqs[i].nexts = 0 /\ reqs[i].nextArg = NoRes
    /\ PipelineError(i) = ERR_OUTDATED_OPTIMIZED_DEP =>
         /\ Answered504(i, "Outdated Optimize Dep")
         /\ reqs[i].logged = {}
         /\ reqs[i].nexts = 0 /\ reqs[i].nextArg = NoRes

\* Both transient errors were answered 504, the first logged and the
\* second not.
C15_Witness ==
  /\ \E i \in 1..Len(reqs) :
       /\ PipelineError(i) = ERR_OPTIMIZE_DEPS_PROCESSING_ERROR
       /\ reqs[i].sent = "504" /\ "error" \in reqs[i].logged
  /\ \E i \in 1..Len(reqs) :
       /\ PipelineError(i) = ERR_OUTDATED_OPTIMIZED_DEP
       /\ reqs[i].sent = "504" /\ reqs[i].logged = {}

\* C16: a request whose pipeline call fails with the load-not-found error
\* is deferred (next without an error, no response); one that fails with an
\* error that is neither that one nor a transient optimizer error has the
\* error passed to next as it was thrown, and no response is sent.
C16_LoadErrorDeferredOthersPropagated ==
  \A i \in 1..Len(reqs) :
    /\ PipelineError(i) = ERR_LOAD_URL => Deferred(i)
    /\ PipelineError(i) \notin
         {"", ERR_LOAD_URL, ERR_OPTIMIZE_DEPS_PROCESSING_ERROR,
          ERR_OUTDATED_OPTIMIZED_DEP} =>
         /\ reqs[i].nexts = 1
         /\ reqs[i].nextArg = comps[calls[reqs[i].call].src].res
         /\ reqs[i].sent = "" /\ reqs[i].ends = 0

\* One request was deferred after the load-not-found error and another
\* passed a hook's error on.
C16_Witness ==
  /\ \E i \in 1..Len(reqs) : PipelineError(i) = ERR_LOAD_URL /\ Deferred(i)
  /\ \E i \in 1..Len(reqs) :
       /\ PipelineError(i) = ERR_UNCLASSIFIED
       /\ reqs[i].nextArg.code = ERR_UNCLASSIFIED

(***************************************************************************)
(* Properties of the warmer.                                               *)
(***************************************************************************)
\* The number of urls prefetched by the load events in evs.
RECURSIVE Issued(_)
Issued(evs) ==
  IF evs = <<>> THEN 0 ELSE Len(Head(evs).issued) + Issued(Tail(evs))

RECURSIVE IssuedAll(_, _)
IssuedAll(ld, ids) ==
  IF ids = {} THEN 0
  ELSE LET id == CHOOSE x \in ids : TRUE
       IN Issued(ld[id]) + IssuedAll(ld, ids \ {id})

\* C17: a load event of a file that finds a recorded import list calls the
\* pipeline once for each recorded import, and once a load event of the
\* file has done so no later load event of the file prefetches anything
\* until a list is recorded for the file again.
C17_PrefetchOneShot ==
  /\ \A id \in FileIds :
       \A i \in 1..Len(loads[id]) :
         /\ loads[id][i].issued # <<>> =>
              loads[id][i].issued = PrefetchUrls(ScannedImports(id))
         /\ \A j \in (i + 1)..Len(loads[id]) :
              loads[id][i].issued # <<>>
                /\ loads[id][j].gen = loads[id][i].gen =>
                loads[id][j].issued = <<>>
  /\ Len(calls) = IssuedAll(loads, FileIds)

\* A file was loaded three times: the first load prefetched, the second,
\* with no new list recorded, did not, and the third, after a new list was
\* recorded, prefetched again.
C17_Witness ==
  \E id \in FileIds :
    /\ Len(loads[id]) = 3
    /\ loads[id][1].issued # <<>>
    /\ loads[id][2].gen = loads[id][1].gen /\ loads[id][2].issued = <<>>
    /\ loads[id][3].gen > loads[id][2].gen /\ loads[id][3].issued # <<>>

\* C18: once a file has changed no import list recorded before the change
\* is left for it, and no load event of the file prefetches from one.
C18_NoStalePrefetch ==
  /\ \A id \in ScannedFiles :
       scans[id].changed => id \notin DOMAIN fileImportsMetadata
  /\ \A id \in FileIds :
       \A i \in 1..Len(loads[id]) :
         loads[id][i].changed => loads[id][i].issued = <<>>

\* A list was recorded for a file, the file changed, and a load event of
\* the file followed that prefetched nothing.
C18_Witness ==
  \E id \in ScannedFiles :
    \E i \in 1..Len(loads[id]) :
      /\ loads[id][i].gen > 0 /\ loads[id][i].changed
      /\ loads[id][i].issued = <<>>
      /\ \A j \in 1..(i - 1) : loads[id][j].gen < loads[id][i].gen

(***************************************************************************)
(* Properties of doTransform.                                              *)
(***************************************************************************)
\* Computation c awaits the lookup and the Module of its url holds a
\* cached result for its mode.
AtCachedLookup(c) ==
  /\ comps[c].pc = "lookup"
  /\ modules[comps[c].url].exists
  /\ Slot(modules[comps[c].url], comps[c].mode) # 0

Outstanding == {t \in 1..Len(tasks) : tasks[t].pc # "done"}

\* C20: when scanImports has returned from a run that was not cancelled no
\* task of the run is outstanding, and from then on the imports,
\* optimizable-deps and missing mappings are not written.
C20_DriverCompleteness ==
  /\ [](ReturnedUncancelled => Outstanding = {})
  /\ [][ReturnedUncancelled =>
          /\ imports' = imports
          /\ depImports' = depImports
          /\ missing' = missing]_vars

\* A run that found files beyond its entries, waited for more than the
\* entries' reads, and returned with every task complete.
C20_Witness ==
  /\ ReturnedUncancelled
  /\ layout.kind \in {"cycle", "mixed"}
  /\ Cardinality(DOMAIN imports) > Len(Entries(layout))
  /\ tasks # <<>> /\ Outstanding = {}
  /\ \A t \in 1..Len(tasks) : tasks[t].file \notin
       {Entries(layout)[e] : e \in 1..Len(Entries(layout))}

(***************************************************************************)
(* Properties of the scan resolver.                                        *)
(***************************************************************************)
\* The resolver calls among the tasks that invoked container.resolveId for
\* the pair k of specifier and importer directory (history: viaHook).
HookCalls(k) ==
  {t \in 1..Len(tasks) :
     /\ tasks[t].kind = "resolve" /\ tasks[t].viaHook
     /\ SeenKey(tasks[t].id, tasks[t].importer) = k}

\* C21: for each pair of specifier and importer directory the resolve hook
\* is invoked by at most one resolver call of the run, also when the calls
\* for the pair are issued before the first of them has completed.
C21_ResolveHookOnce ==
  \A t \in 1..Len(tasks) :
    tasks[t].kind = "resolve" =>
      Cardinality(HookCalls(SeenKey(tasks[t].id, tasks[t].importer))) <= 1

(***************************************************************************)
(* Properties of repeated scans.                                           *)
(***************************************************************************)
\* The entry files of the project.
EntryFiles == {Entries(layout)[e] : e \in 1..Len(Entries(layout))}

\* C22: an invocation of scanImports that follows another one reads its
\* entry files again: when it has returned, not cancelled, every entry has
\* been read in it.
C22_ScanStateRebuilt ==
  rescans > 0 /\ ReturnedUncancelled =>
    \A p \in EntryFiles : Count(reads, p) >= 1

\* C23: a registry entry is removed or replaced only in the step in which
\* its own computation's clearCache runs for the first time, by that
\* computation's settlement or by its abort. The settlement of an aborted
\* computation and a second abort of it leave the entry of the fresh
\* computation registered under the same key in place.
C23_FreshEntryKept ==
  [][\A k \in Keys :
       LET n == pendingRequests[k]
       IN (n # 0 /\ pendingRequests'[k] # n) =>
            /\ ~comps[n].cleared
            /\ comps'[n].cleared
            /\ \/ comps[n].pc # "settled" /\ comps'[n].pc = "settled"
               \/ ~comps[n].abortedFirst /\ comps'[n].abortedFirst]_vars

\* Computation P was aborted by one caller and again by another that had
\* captured it before, P has settled since, and the fresh computation N is
\* still registered under their key.
C23_Witness ==
  \E P, N \in 1..Len(comps) :
    /\ P < N
    /\ comps[P].key = comps[N].key
    /\ comps[P].abortedFirst
    /\ comps[P].pc = "settled"
    /\ comps[P].removals = 1
    /\ comps[N].pc # "settled"
    /\ pendingRequests[comps[N].key] = N
    /\ \E i, j \in 1..Len(calls) :
         /\ i # j
         /\ calls[i].found = P /\ calls[i].abortedFound
         /\ calls[j].found = P /\ calls[j].abortedFound

\* C24: the middleware ends the response of a request or calls the next
\* handler, with or without an error, once and never both, and not before
\* it is through with the request; a request it is through with has one of
\* these outcomes unless its response had been ended by someone else
\* before, in which case it may have none.
C24_OneTerminalOutcome ==
  \A i \in 1..Len(reqs) :
    LET r == reqs[i]
    IN /\ r.ends + r.nexts <= 1
       /\ r.pc # "done" => r.ends + r.nexts = 0
       /\ r.pc = "done" => (r.ends + r.nexts = 1 \/ r.writableEnded)
       /\ r.ends = 1 => r.sent \in {"200", "304", "504", "map"}
       /\ r.ends = 0 => r.sent = ""
       /\ r.nexts = 0 => r.nextArg = NoRes

\* The middleware is through with two requests: it answered one with 504
\* and handed the error of the other to the next handler.
C24_Witness ==
  \E i, j \in 1..Len(reqs) :
    /\ reqs[i].pc = "done" /\ reqs[i].sent = "504" /\ reqs[i].ends = 1
    /\ reqs[i].nexts = 0
    /\ reqs[j].pc = "done" /\ reqs[j].nexts = 1 /\ reqs[j].nextArg # NoRes
    /\ reqs[j].ends = 0

\* C25: the step in which a computation fails with a load error leaves the
\* module graph as it was, with no cache slot written by the computation,
\* and leaves the registry without the computation's entry; a call issued
\* for the cache key of a computation that has failed so never finds that
\* computation pending: it starts a new computation, which begins at the
\* lookup, or finds another computation that has not settled; and a
\* computation for such a key that finds no Module at the lookup goes on
\* to the load hook.
C25_LoadFailureLeavesNoTrace ==
  [][/\ \A c \in 1..Len(comps) :
          (~LoadFailed(c) /\ LoadFailed(c)') =>
            /\ modules' = modules
            /\ ~comps'[c].wrote
            /\ pendingRequests'[comps[c].key] # c
     /\ Len(calls') > Len(calls) =>
          LET n == calls'[Len(calls')]
          IN \A c \in 1..Len(comps) :
               (LoadFailed(c) /\ comps[c].key = cacheKey(n.url, n.mode)) =>
                 /\ n.found # c
                 /\ n.found = 0 =>
                       /\ n.created = Len(comps) + 1
                       /\ Len(comps') = Len(comps) + 1
                       /\ comps'[n.created].pc = "lookup"
                 /\ n.found # 0 => comps[n.found].pc # "settled"
     /\ \A d \in 1..Len(comps) :
          (/\ comps[d].pc = "lookup" /\ comps'[d].pc # "lookup"
           /\ \E c \in 1..Len(comps) :
                LoadFailed(c) /\ comps[c].key = comps[d].key
           /\ ~modules[comps[d].url].exists) =>
            comps'[d].pc = "load"]_vars

\* Computation c failed with a load error and was not aborted, no Module
\* exists for its url, and a later call for its cache key has started
\* computation d, which has invoked the load hook.
C25_Witness ==
  \E c, d \in 1..Len(comps) : \E i \in 1..Len(calls) :
    /\ c < d
    /\ LoadFailed(c) /\ ~comps[c].abortedFirst
    /\ comps[d].key = comps[c].key
    /\ ~modules[comps[c].url].exists
    /\ pendingRequests[comps[c].key] = d
    /\ calls[i].created = d /\ calls[i].found = 0
    /\ comps[d].pc = "load"
    /\ LoadCalls(d) >= 1

=============================================================================
